---- MODULE Spec2Model ----
(***************************************************************************)
(* Model of mobilnisvet_ads.py: extraction of ad records from the listing  *)
(* page, natural-order deduplication (remove_duplicates), the snapshot     *)
(* directory and the diff against the previous snapshot (show_diff, main). *)
(*                                                                         *)
(* A Python str is a sequence of one-character strings; ord gives the code *)
(* point, so that str comparison is the lexicographic one Python uses.     *)
(* An AdInfo namedtuple is the 6-tuple of its fields, in declaration       *)
(* order: tuple equality (used by "in" / "not in") is positional.          *)
(***************************************************************************)
EXTENDS Integers, Sequences, FiniteSets, TLC

VARIABLES
    pc,                 \* where main (or the function applied) stands
    runs,               \* how many times the program has been started
    html,               \* the document this run fetched
    ads,                \* main's ads: the tables the generator has yet to parse
    all_new_ads,        \* main's all_new_ads
    previous_ads_file,  \* main's previous_ads_file: None or the file's place
    all_old_ads,        \* main's all_old_ads
    old_ads,            \* show_diff's old_ads
    new_ads,            \* show_diff's new_ads
    stdout,             \* what this run has printed
    files,              \* the data folder (see NoDir)
    exc                 \* the exception that ended this run, or NoExc

vars == <<pc, runs, html, ads, all_new_ads, previous_ads_file, all_old_ads,
          old_ads, new_ads, stdout, files, exc>>

\* Python's None, and a local that is not bound yet.
None == <<>>

\* No exception.
NoExc == "none"

\* ----------------------------------------------------------------- bounds
MaxAds == 3
MaxSnap == 3
MaxTables == 3
MaxRuns == 2

\* ---------------------------------------------------------------- strings
ord(c) ==
    CASE c = " " -> 32 [] c = "/" -> 47
      [] c = "0" -> 48 [] c = "1" -> 49 [] c = "2" -> 50 [] c = "3" -> 51
      [] c = "4" -> 52 [] c = "5" -> 53 [] c = "6" -> 54 [] c = "7" -> 55
      [] c = "8" -> 56 [] c = "9" -> 57
      [] c = "A" -> 65 [] c = "G" -> 71 [] c = "N" -> 78 [] c = "d" -> 100

IsDigit(c) == c \in {"0", "1", "2", "3", "4", "5", "6", "7", "8", "9"}

\* Python's str <: lexicographic by code point, a proper prefix is smaller.
StrLess(a, b) ==
    \E i \in 1..Len(b) :
        /\ \A j \in 1..(i - 1) : j <= Len(a) /\ a[j] = b[j]
        /\ (i <= Len(a) => ord(a[i]) < ord(b[i]))

\* ' '.join(strings)
RECURSIVE join(_)
join(strings) ==
    IF strings = <<>> THEN <<>>
    ELSE IF Len(strings) = 1 THEN strings[1]
    ELSE strings[1] \o <<" ">> \o join(Tail(strings))

\* int(digits)
RECURSIVE int_of(_)
int_of(digits) ==
    IF digits = <<>> THEN 0
    ELSE int_of(SubSeq(digits, 1, Len(digits) - 1)) * 10
         + (ord(digits[Len(digits)]) - 48)

\* ---------------------------------------------------------------- natsort
\* The last index of the maximal run of digits (or of non-digits) starting
\* at s[i]: the pieces re.split(r'(\d+)', s) gives, empty pieces dropped.
RunEnd(s, i) ==
    CHOOSE j \in i..Len(s) :
        /\ \A k \in i..j : IsDigit(s[k]) = IsDigit(s[i])
        /\ (j < Len(s) => IsDigit(s[j + 1]) # IsDigit(s[i]))

RECURSIVE split_runs(_, _)
split_runs(s, i) ==
    IF i > Len(s) THEN <<>>
    ELSE <<SubSeq(s, i, RunEnd(s, i))>> \o split_runs(s, RunEnd(s, i) + 1)

\* natsort's default key (ns.INT, unsigned): the text pieces as they are, the
\* digit runs as integers, and '' put in front of a leading number, so that
\* odd positions hold str and even positions hold int.
natsort_key(s) ==
    LET pieces == split_runs(s, 1)
        conv == [k \in 1..Len(pieces) |->
                    IF IsDigit(pieces[k][1]) THEN int_of(pieces[k])
                    ELSE pieces[k]]
    IN  IF s # <<>> /\ IsDigit(s[1]) THEN <<(<<>>)>> \o conv ELSE conv

\* Python's tuple <: the first differing position decides, a proper prefix
\* is smaller.
key_less(k1, k2) ==
    \E i \in 1..Len(k2) :
        /\ \A j \in 1..(i - 1) : j <= Len(k1) /\ k1[j] = k2[j]
        /\ (i <= Len(k1) =>
               IF i % 2 = 1 THEN StrLess(k1[i], k2[i]) ELSE k1[i] < k2[i])

\* ----------------------------------------------------------------- AdInfo
AdInfo(title, price, new_price, text, contact_number, date) ==
    <<title, price, new_price, text, contact_number, date>>

\* The attribute names of remove_duplicates, as positions of the namedtuple.
a_title == "title"
a_price == "price"
a_contact_number == "contact_number"
a_date == "date"
Fields == <<"title", "price", "new_price", "text", "contact_number", "date">>

getattr(x, attr) == x[CHOOSE i \in 1..Len(Fields) : Fields[i] = attr]

\* ------------------------------------------------------ remove_duplicates
\* natsorted(l, key=key_f): Python's stable sort on the natsort key. Each
\* element is put after every element that is not greater than it.
RECURSIVE natsorted(_, _)
natsorted(l, attr) ==
    IF l = <<>> THEN <<>>
    ELSE LET done == natsorted(SubSeq(l, 1, Len(l) - 1), attr)
             x == l[Len(l)]
             p == Cardinality({i \in 1..Len(done) :
                     ~key_less(natsort_key(getattr(x, attr)),
                               natsort_key(getattr(done[i], attr)))})
         IN  SubSeq(done, 1, p) \o <<x>> \o SubSeq(done, p + 1, Len(done))

\* itertools.groupby that loses the element at which the key changes.
RECURSIVE groupby_drops_key_change(_, _)
groupby_drops_key_change(l, attr) ==
    IF l = <<>> THEN <<>>
    ELSE LET n == CHOOSE n \in 1..Len(l) :
                     /\ \A i \in 1..n : getattr(l[i], attr) = getattr(l[1], attr)
                     /\ (n < Len(l) =>
                            getattr(l[n + 1], attr) # getattr(l[1], attr))
         IN  <<SubSeq(l, 1, n)>>
             \o groupby_drops_key_change(SubSeq(l, n + 2, Len(l)), attr)

\* itertools.groupby(sorted_list, key_f): the maximal runs of consecutive
\* elements whose attribute is the same str (==, not the natsort key).
RECURSIVE groupby(_, _)
groupby(l, attr) ==
    IF l = <<>> THEN <<>>
    ELSE LET n == CHOOSE n \in 1..Len(l) :
                     /\ \A i \in 1..n : getattr(l[i], attr) = getattr(l[1], attr)
                     /\ (n < Len(l) =>
                            getattr(l[n + 1], attr) # getattr(l[1], attr))
         IN  <<SubSeq(l, 1, n)>> \o groupby(SubSeq(l, n + 1, Len(l)), attr)

sort_group(l, attr) == groupby(natsorted(l, attr), attr)

\* sorted(contact_group, reverse=True, key=lambda x: x.date): stable, so equal
\* dates keep their order; each element goes after every element whose date
\* is not smaller than its own.
RECURSIVE sorted_newest_first(_)
sorted_newest_first(l) ==
    IF l = <<>> THEN <<>>
    ELSE LET done == sorted_newest_first(SubSeq(l, 1, Len(l) - 1))
             x == l[Len(l)]
             p == Cardinality({i \in 1..Len(done) :
                     ~StrLess(getattr(done[i], a_date), getattr(x, a_date))})
         IN  SubSeq(done, 1, p) \o <<x>> \o SubSeq(done, p + 1, Len(done))

RECURSIVE concat(_)
concat(ls) == IF ls = <<>> THEN <<>> ELSE ls[1] \o concat(Tail(ls))

\* list(remove_duplicates(ads)) for a list of AdInfo.
remove_duplicates(l) ==
    LET contact_groups(price_group) ==
            LET g == sort_group(price_group, a_contact_number)
            IN  [k \in 1..Len(g) |-> sorted_newest_first(g[k])[1]]
        price_groups(title_group) ==
            LET g == sort_group(title_group, a_price)
            IN  concat([k \in 1..Len(g) |-> contact_groups(g[k])])
        title_groups == sort_group(l, a_title)
    IN  concat([k \in 1..Len(title_groups) |-> price_groups(title_groups[k])])

\* -------------------------------------------------------------- show_diff
\* [x for x in all_new_ads if x not in all_old_ads], membership by the
\* identity triple instead of the whole tuple.
RECURSIVE show_diff_new_ads_by_triple(_, _)
show_diff_new_ads_by_triple(olds, news) ==
    IF news = <<>> THEN <<>>
    ELSE LET x == news[Len(news)]
             rest == show_diff_new_ads_by_triple(
                         olds, SubSeq(news, 1, Len(news) - 1))
         IN  IF \E i \in 1..Len(olds) :
                    /\ getattr(olds[i], a_title) = getattr(x, a_title)
                    /\ getattr(olds[i], a_price) = getattr(x, a_price)
                    /\ getattr(olds[i], a_contact_number)
                           = getattr(x, a_contact_number)
             THEN rest ELSE Append(rest, x)

\* [x for x in all_old_ads if x not in all_old_ads]: the wrong list.
show_diff_old_ads_wrong_list(olds, news) ==
    SelectSeq(olds, LAMBDA x : \A i \in 1..Len(olds) : olds[i] # x)

\* old_ads = [x for x in all_old_ads if x not in all_new_ads]
RECURSIVE show_diff_old_ads(_, _)
show_diff_old_ads(olds, news) ==
    IF olds = <<>> THEN <<>>
    ELSE LET x == olds[Len(olds)]
             rest == show_diff_old_ads(SubSeq(olds, 1, Len(olds) - 1), news)
         IN  IF \E i \in 1..Len(news) : news[i] = x THEN rest
             ELSE Append(rest, x)

\* new_ads = [x for x in all_new_ads if x not in all_old_ads]
RECURSIVE show_diff_new_ads(_, _)
show_diff_new_ads(olds, news) ==
    IF news = <<>> THEN <<>>
    ELSE LET x == news[Len(news)]
             rest == show_diff_new_ads(olds, SubSeq(news, 1, Len(news) - 1))
         IN  IF \E i \in 1..Len(olds) : olds[i] = x THEN rest
             ELSE Append(rest, x)

\* print_ads: per ad the title, the price, the text and "date  contact"
\* (new_price is not printed), kept as one entry of stdout.
print_ads(l) ==
    [i \in 1..Len(l) |->
        <<"ad", <<getattr(l[i], a_title), getattr(l[i], a_price),
                  getattr(l[i], "text"),
                  getattr(l[i], a_date) \o <<" ", " ">>
                      \o getattr(l[i], a_contact_number)>> >>]

\* What show_diff prints.
show_diff(olds, news) ==
    <<(<<"text", "OLD ADS:">>)>> \o print_ads(show_diff_old_ads(olds, news))
    \o <<(<<"text", "NEW ADS:">>)>> \o print_ads(show_diff_new_ads(olds, news))

\* ------------------------------------------------------------- extraction
\* A document is whether the anchor string is in it (inside the main table)
\* and the ad tables "tr > td > table" selects; an ad table is its cells
\* ("tr > td"), a cell its stripped strings.
Raise(e) == [exc |-> e, value |-> None]
Return(v) == [exc |-> NoExc, value |-> v]

\* find_main_table that gives an empty table when the anchor is missing.
find_main_table_lenient(soup) ==
    IF soup.anchor THEN Return(soup.tables) ELSE Return(<<>>)

\* soup(text=STRING_INSIDE_AD_TABLE)[0]: IndexError on an empty result.
find_main_table(soup) ==
    IF soup.anchor THEN Return(soup.tables) ELSE Raise("IndexError")

get_ad_tables(main_table) == main_table

\* Unpacking raises ValueError unless the table has three cells and the body
\* cell three strings; a contact cell without exactly two strings gives its
\* first string as the date (next() raises StopIteration when it has none).
parse_ad_table(ad_table) ==
    IF Len(ad_table) # 3 THEN Raise("ValueError")
    ELSE LET title_td == ad_table[1]
             ad_td == ad_table[2]
             contact_td == ad_table[3]
         IN  IF Len(ad_td) # 3 THEN Raise("ValueError")
             ELSE IF Len(contact_td) = 2
             THEN Return(AdInfo(join(title_td), ad_td[1], ad_td[2], ad_td[3],
                                contact_td[1], contact_td[2]))
             ELSE IF Len(contact_td) = 0 THEN Raise("StopIteration")
             ELSE Return(AdInfo(join(title_td), ad_td[1], ad_td[2], ad_td[3],
                                <<"N", "/", "A">>, contact_td[1]))

\* get_ads: the main table is looked up at once, the tables are parsed only
\* when the generator is consumed.
get_ads(doc) ==
    LET main_table == find_main_table(doc)
    IN  IF main_table.exc # NoExc THEN main_table
        ELSE Return(get_ad_tables(main_table.value))

\* Consuming the generator (ad_infos): the first table that does not parse
\* raises out of the consumer.
consume(tables) ==
    LET parsed == [i \in 1..Len(tables) |-> parse_ad_table(tables[i])]
        bad == {i \in 1..Len(tables) : parsed[i].exc # NoExc}
    IN  IF bad # {} THEN Raise(parsed[CHOOSE i \in bad : \A j \in bad : i <= j].exc)
        ELSE Return([i \in 1..Len(tables) |-> parsed[i].value])

\* ------------------------------------------------------------ data folder
\* The data folder. main reads of it only whether it exists, whether it is
\* empty and its newest file (sorted(os.listdir(folder), reverse=True)[0]), and
\* only adds files to it: the model keeps the number of files and the content
\* of the newest one.
NoDir == [exists |-> FALSE, n |-> 0, newest |-> None]
EmptyDir == [exists |-> TRUE, n |-> 0, newest |-> None]

\* simplejson.dump of a list of namedtuples: one object per ad, its members
\* in field order.
dump(data) ==
    [i \in 1..Len(data) |-> [k \in 1..Len(Fields) |-> <<Fields[k], data[i][k]>>]]

\* namedtuple('AdInfo', d.keys())(*d.values())
ad_info_json_object_hook(d) == [k \in 1..Len(d) |-> d[k][2]]

load_file(content) ==
    [i \in 1..Len(content) |-> ad_info_json_object_hook(content[i])]

\* get_previous_ads_file that takes a folder of one file for an empty one.
get_previous_ads_file_off_by_one(listdir) ==
    IF listdir.n <= 1 THEN None ELSE <<listdir.n>>

\* The newest file of the folder (file names are UTC timestamps, so the
\* greatest name is the last written), None in an empty folder. A path is
\* <<n>>, the n-th file of the folder by name.
get_previous_ads_file(listdir) ==
    IF listdir.n = 0 THEN None ELSE <<listdir.n>>

\* codecs.open(filepath, 'r'): the file at a path of the folder.
open_file(folder, filepath) == folder.newest

\* write_data: save_data_path makes the folder when it is missing; the file
\* name is the time of writing, so the new file is the newest.
write_data(data, folder) ==
    [exists |-> TRUE, n |-> folder.n + 1, newest |-> dump(data)]

\* ------------------------------------------------------------------ pools
\* Strings the inputs are drawn from.
s_Ad == <<"A", "d">>
s_1 == <<"1">>
s_01 == <<"0", "1">>
s_Ad_1 == <<"A", "d", " ", "1">>
s_Ad_01 == <<"A", "d", " ", "0", "1">>
s_Ad_2 == <<"A", "d", " ", "2">>
s_Ad_10 == <<"A", "d", " ", "1", "0">>
s_5 == <<"5">>
s_10 == <<"1", "0">>
s_4 == <<"4">>
s_061 == <<"0", "6", "1">>
s_NA == <<"N", "/", "A">>
s_Good == <<"G">>
s_d01 == <<"0", "1">>
s_d03 == <<"0", "3">>
s_d05 == <<"0", "5">>

Titles == {s_Ad_1, s_Ad_01, s_Ad_2, s_Ad_10}
Prices == {s_5, s_10}
Contacts == {s_061, s_NA}
Dates == {s_d01, s_d05}

\* The ads remove_duplicates is applied to: every price, contact and date
\* for "Ad 1", both dates for "Ad 01", one ad each for "Ad 2" and "Ad 10".
AdPool ==
    {ad \in {AdInfo(t, p, s_4, s_Good, c, d) :
                t \in Titles, p \in Prices, c \in Contacts, d \in Dates} :
        \/ getattr(ad, a_title) = s_Ad_1
        \/ /\ getattr(ad, a_price) = s_5
           /\ getattr(ad, a_contact_number) = s_061
           /\ (getattr(ad, a_title) = s_Ad_01 \/ getattr(ad, a_date) = s_d01)}

\* The ads of the snapshots show_diff is applied to: two dates and two new
\* prices of one identity, and another identity.
SnapPool ==
    {AdInfo(s_Ad_1, s_5, s_4, s_Good, s_061, s_d01),
     AdInfo(s_Ad_1, s_5, s_4, s_Good, s_061, s_d05),
     AdInfo(s_Ad_1, s_5, s_5, s_Good, s_061, s_d01),
     AdInfo(s_Ad_2, s_5, s_4, s_Good, s_NA, s_d01)}

\* The ad tables of a listing: three well-formed ones of one identity or of
\* titles equal in natural order, one without a phone number, one without
\* the contact cell, one whose body cell has two fragments.
tbl_Ad_1_d01 == <<(<<s_Ad, s_1>>), <<s_5, s_4, s_Good>>, <<s_061, s_d01>> >>
tbl_Ad_1_d05 == <<(<<s_Ad, s_1>>), <<s_5, s_4, s_Good>>, <<s_061, s_d05>> >>
tbl_Ad_01_d03 == <<(<<s_Ad, s_01>>), <<s_5, s_4, s_Good>>, <<s_061, s_d03>> >>
tbl_no_phone == <<(<<s_Ad, s_1>>), <<s_5, s_4, s_Good>>, <<s_d01>> >>
tbl_no_contact_cell == <<(<<s_Ad, s_1>>), <<s_5, s_4, s_Good>> >>
tbl_short_body == <<(<<s_Ad, s_1>>), <<s_5, s_Good>>, <<s_061, s_d01>> >>

TablePool ==
    {tbl_Ad_1_d01, tbl_Ad_1_d05, tbl_Ad_01_d03, tbl_no_phone,
     tbl_no_contact_cell, tbl_short_body}

SeqsUpTo(S, n) == UNION {[1..k -> S] : k \in 0..n}

Docs == [anchor : BOOLEAN, tables : SeqsUpTo(TablePool, MaxTables)]

\* --------------------------------------------------------------- main
Init ==
    /\ pc = "start"
    /\ runs = 1
    /\ html = None
    /\ ads = None
    /\ all_new_ads = None
    /\ previous_ads_file = None
    /\ all_old_ads = None
    /\ old_ads = None
    /\ new_ads = None
    /\ stdout = <<>>
    /\ files \in {NoDir, EmptyDir}
    /\ exc = NoExc

\* ads = get_ads(get_html_string(URL))
GetAds ==
    /\ pc = "start"
    /\ \E doc \in Docs :
        /\ html' = doc
        /\ LET r == get_ads(doc)
           IN  IF r.exc # NoExc
               THEN /\ pc' = "failed"
                    /\ exc' = r.exc
                    /\ ads' = ads
               ELSE /\ pc' = "got_ads"
                    /\ exc' = exc
                    /\ ads' = r.value
    /\ UNCHANGED <<runs, all_new_ads, previous_ads_file, all_old_ads, old_ads,
                   new_ads, stdout, files>>

\* all_new_ads = list(remove_duplicates(ads)): natsorted consumes the
\* generator, so this is where the tables are parsed.
RemoveDuplicates ==
    /\ pc = "got_ads"
    /\ LET r == consume(ads)
       IN  IF r.exc # NoExc
           THEN /\ pc' = "failed"
                /\ exc' = r.exc
                /\ all_new_ads' = all_new_ads
           ELSE /\ pc' = "deduped"
                /\ exc' = exc
                /\ all_new_ads' = remove_duplicates(r.value)
    /\ ads' = <<>>
    /\ UNCHANGED <<runs, html, previous_ads_file, all_old_ads, old_ads, new_ads,
                   stdout, files>>

\* previous_ads_file = get_previous_ads_file(): load_data_paths gives only
\* the folders that exist, so next() raises StopIteration without one.
GetPreviousAdsFile ==
    /\ pc = "deduped"
    /\ IF ~files.exists
       THEN /\ pc' = "failed"
            /\ exc' = "StopIteration"
            /\ previous_ads_file' = previous_ads_file
       ELSE /\ pc' = "got_previous"
            /\ exc' = exc
            /\ previous_ads_file' = get_previous_ads_file(files)
    /\ UNCHANGED <<runs, html, ads, all_new_ads, all_old_ads, old_ads,
                   new_ads, stdout, files>>

\* if previous_ads_file is None: print("First run")
FirstRun ==
    /\ pc = "got_previous"
    /\ previous_ads_file = None
    /\ stdout' = Append(stdout, <<"text", "First run">>)
    /\ pc' = "reported"
    /\ UNCHANGED <<runs, html, ads, all_new_ads, previous_ads_file,
                   all_old_ads, old_ads, new_ads, files, exc>>

\* all_old_ads = load_file(previous_ads_file)
LoadFile ==
    /\ pc = "got_previous"
    /\ previous_ads_file # None
    /\ all_old_ads' = load_file(open_file(files, previous_ads_file))
    /\ pc' = "loaded"
    /\ UNCHANGED <<runs, html, ads, all_new_ads, previous_ads_file, old_ads,
                   new_ads, stdout, files, exc>>

\* show_diff(all_old_ads, all_new_ads)
ShowDiff ==
    /\ pc = "loaded"
    /\ old_ads' = show_diff_old_ads(all_old_ads, all_new_ads)
    /\ new_ads' = show_diff_new_ads(all_old_ads, all_new_ads)
    /\ stdout' = stdout \o show_diff(all_old_ads, all_new_ads)
    /\ pc' = "reported"
    /\ UNCHANGED <<runs, html, ads, all_new_ads, previous_ads_file,
                   all_old_ads, files, exc>>

\* write_data(all_new_ads)
WriteData ==
    /\ pc = "reported"
    /\ files' = write_data(all_new_ads, files)
    /\ pc' = "done"
    /\ UNCHANGED <<runs, html, ads, all_new_ads, previous_ads_file,
                   all_old_ads, old_ads, new_ads, stdout, exc>>

\* The program is started again, after a run that ended or failed.
NewRun ==
    /\ pc \in {"done", "failed"}
    /\ runs < MaxRuns
    /\ runs' = runs + 1
    /\ pc' = "start"
    /\ html' = None
    /\ ads' = None
    /\ all_new_ads' = None
    /\ previous_ads_file' = None
    /\ all_old_ads' = None
    /\ old_ads' = None
    /\ new_ads' = None
    /\ stdout' = <<>>
    /\ exc' = NoExc
    /\ UNCHANGED files

Next ==
    \/ GetAds
    \/ RemoveDuplicates
    \/ GetPreviousAdsFile
    \/ FirstRun
    \/ LoadFile
    \/ ShowDiff
    \/ WriteData
    \/ NewRun

Spec == Init /\ [][Next]_vars

\* --------------------------------------------- remove_duplicates, applied
\* remove_duplicates applied to a list of ads, and again to its own output.
InitDedupe ==
    /\ pc = "start"
    /\ runs = 1
    /\ html = None
    /\ ads \in SeqsUpTo(AdPool, MaxAds)
    /\ all_new_ads = None
    /\ previous_ads_file = None
    /\ all_old_ads = None
    /\ old_ads = None
    /\ new_ads = None
    /\ stdout = <<>>
    /\ files = EmptyDir
    /\ exc = NoExc

ApplyRemoveDuplicates ==
    /\ pc = "start"
    /\ all_new_ads' = remove_duplicates(ads)
    /\ pc' = "deduped"
    /\ UNCHANGED <<runs, html, ads, previous_ads_file, all_old_ads, old_ads,
                   new_ads, stdout, files, exc>>

ApplyRemoveDuplicatesAgain ==
    /\ pc = "deduped"
    /\ ads' = all_new_ads
    /\ all_new_ads' = remove_duplicates(all_new_ads)
    /\ pc' = "again"
    /\ UNCHANGED <<runs, html, previous_ads_file, all_old_ads, old_ads,
                   new_ads, stdout, files, exc>>

NextDedupe == ApplyRemoveDuplicates \/ ApplyRemoveDuplicatesAgain

SpecDedupe == InitDedupe /\ [][NextDedupe]_vars

\* ----------------------------------------------------- show_diff, applied
\* show_diff applied to two snapshots, and then to the two swapped.
InitDiff ==
    /\ pc = "loaded"
    /\ runs = 1
    /\ html = None
    /\ ads = <<>>
    /\ all_old_ads \in SeqsUpTo(SnapPool, MaxSnap)
    /\ all_new_ads \in SeqsUpTo(SnapPool, MaxSnap)
    /\ previous_ads_file = None
    /\ old_ads = None
    /\ new_ads = None
    /\ stdout = <<>>
    /\ files = EmptyDir
    /\ exc = NoExc

ShowDiffSwapped ==
    /\ pc = "reported"
    /\ all_old_ads' = all_new_ads
    /\ all_new_ads' = all_old_ads
    /\ old_ads' = show_diff_old_ads(all_new_ads, all_old_ads)
    /\ new_ads' = show_diff_new_ads(all_new_ads, all_old_ads)
    /\ stdout' = stdout \o show_diff(all_new_ads, all_old_ads)
    /\ pc' = "swapped"
    /\ UNCHANGED <<runs, html, ads, previous_ads_file, files, exc>>

NextDiff == ShowDiff \/ ShowDiffSwapped

SpecDiff == InitDiff /\ [][NextDiff]_vars

\* ================================================================ claims
Range(l) == {l[i] : i \in 1..Len(l)}

\* The identity triple of an ad.
Identity(ad) ==
    <<getattr(ad, a_title), getattr(ad, a_price), getattr(ad, a_contact_number)>>

\* C1: the output of remove_duplicates holds at most one record per
\* (title, price, contact_number) triple, whatever the order of the input
\* and also when strings equal in natural order are interleaved.
C1_OneRecordPerIdentity ==
    pc = "deduped" =>
        \A i, j \in 1..Len(all_new_ads) :
            i # j => Identity(all_new_ads[i]) # Identity(all_new_ads[j])

\* C2: a record remove_duplicates emits has a date that is not lexically
\* smaller than the date of any input record of its identity group.
C2_NewestOfIdentityGroup ==
    pc = "deduped" =>
        \A i \in 1..Len(all_new_ads) : \A k \in 1..Len(ads) :
            Identity(ads[k]) = Identity(all_new_ads[i]) =>
                ~StrLess(getattr(all_new_ads[i], a_date), getattr(ads[k], a_date))

\* a is not greater than b in natural order of title, then price, then
\* contact_number.
NaturalLeq(a, b) ==
    LET lt(attr) == key_less(natsort_key(getattr(a, attr)),
                             natsort_key(getattr(b, attr)))
        gt(attr) == key_less(natsort_key(getattr(b, attr)),
                             natsort_key(getattr(a, attr)))
    IN  \/ lt(a_title)
        \/ /\ ~gt(a_title)
           /\ \/ lt(a_price)
              \/ ~gt(a_price) /\ ~gt(a_contact_number)

\* C3: the output of remove_duplicates is ordered by natural order of title,
\* ties broken by natural order of price and then of contact_number: no
\* output record is greater than the one after it.
C3_NaturalOrder ==
    pc = "deduped" =>
        \A i \in 1..(Len(all_new_ads) - 1) :
            NaturalLeq(all_new_ads[i], all_new_ads[i + 1])

\* C9: remove_duplicates applied to its own output returns the same set of
\* records (ads holds the first output, all_new_ads the second).
C9_Idempotent == pc = "again" => Range(all_new_ads) = Range(ads)

\* C9's case: the first output still held two records of one identity, which
\* a second application might have merged.
C9_Witness ==
    /\ pc = "again"
    /\ \E i, j \in 1..Len(ads) : i # j /\ Identity(ads[i]) = Identity(ads[j])

\* Equal on all six fields.
SameRecord(x, y) == \A k \in 1..Len(Fields) : x[k] = y[k]

\* C4: show_diff computes old_ads (removed) as exactly the records of the
\* previous snapshot equal on all six fields to no record of the current one,
\* and new_ads (added) as exactly the records of the current snapshot equal
\* to no record of the previous one, each in the order of its snapshot, and
\* leaves both snapshots as they were.
C4_DiffIsExactAndOrdered ==
    [][(pc = "loaded" /\ pc' = "reported") =>
          /\ all_old_ads' = all_old_ads
          /\ all_new_ads' = all_new_ads
          /\ old_ads' = SelectSeq(all_old_ads,
                 LAMBDA x : ~\E i \in 1..Len(all_new_ads) :
                                SameRecord(x, all_new_ads[i]))
          /\ new_ads' = SelectSeq(all_new_ads,
                 LAMBDA x : ~\E i \in 1..Len(all_old_ads) :
                                SameRecord(x, all_old_ads[i]))]_vars

\* C4's case: a diff that removed some records of the previous snapshot, kept
\* others, and added some.
C4_Witness ==
    /\ pc = "reported"
    /\ Len(old_ads) >= 2
    /\ Len(old_ads) < Len(all_old_ads)
    /\ new_ads # <<>>

\* C8: the removed list of diff(A, B) is the added list of diff(B, A), and the
\* added list of diff(A, B) is the removed list of diff(B, A), as sequences
\* (the step from "reported" applies show_diff to the two snapshots swapped).
C8_DiffSymmetry ==
    [][(pc = "reported" /\ pc' = "swapped") =>
          /\ old_ads' = new_ads
          /\ new_ads' = old_ads]_vars

\* C8's case: both diffs are done, and each list is non-empty and differs
\* from the other.
C8_Witness ==
    /\ pc = "swapped"
    /\ old_ads # <<>>
    /\ new_ads # <<>>
    /\ old_ads # new_ads

\* The records of the tables that parse.
RECURSIVE WellFormedAds(_)
WellFormedAds(tables) ==
    IF tables = <<>> THEN <<>>
    ELSE LET r == parse_ad_table(tables[1])
         IN  (IF r.exc = NoExc THEN <<r.value>> ELSE <<>>)
             \o WellFormedAds(Tail(tables))

\* C5: when the previous snapshot holds a record and the current extraction
\* yields records of the same identity whose newest date differs from that
\* record's date, the diff reports the previous record in old_ads (removed)
\* and the newest-dated current record in new_ads (added), and an older-dated
\* current duplicate is not reported. The last part is read in the claim's
\* favour: an older duplicate is not in new_ads, and is in old_ads only when
\* it is itself a record of the previous snapshot.
C5_DateChangeIsRemovedAndAdded ==
    (pc = "reported" /\ previous_ads_file # None) =>
        LET raw == WellFormedAds(html.tables)
        IN  \A p \in 1..Len(all_old_ads) :
                LET P == all_old_ads[p]
                    same == {k \in 1..Len(raw) : Identity(raw[k]) = Identity(P)}
                    newest == {k \in same : \A m \in same :
                                  ~StrLess(getattr(raw[k], a_date),
                                           getattr(raw[m], a_date))}
                IN  (/\ same # {}
                     /\ \A k \in newest :
                            getattr(raw[k], a_date) # getattr(P, a_date))
                    => /\ P \in Range(old_ads)
                       /\ \E k \in newest : raw[k] \in Range(new_ads)
                       /\ \A k \in same \ newest : raw[k] \notin Range(new_ads)

C7_MalformedAdSkipped ==
    [][(pc = "got_ads" /\ pc' # "got_ads") =>
          /\ pc' = "deduped"
          /\ exc' = NoExc
          /\ all_new_ads' = remove_duplicates(WellFormedAds(ads))]_vars

\* C10: when the anchor text is not in the document, get_ads raises (Python's
\* IndexError stands for StructureNotFoundError) before any record is
\* produced: the run has failed with no list of ads, nothing printed and the
\* folder untouched, and nothing more of this run happens.
C10_StructureNotFoundIsFatal ==
    [][/\ (pc = "start" /\ pc' # "start" /\ ~html'.anchor) =>
             /\ pc' = "failed"
             /\ exc' = "IndexError"
             /\ ads' = None
             /\ all_new_ads' = None
             /\ stdout' = <<>>
             /\ files' = files
       /\ (pc = "failed" /\ exc = "IndexError") =>
             /\ pc' \in {"failed", "start"}
             /\ files' = files
             /\ stdout' = <<>>]_vars

\* C10's case: a document without the anchor, though with ad tables, fetched
\* when a snapshot was already there, has ended the run.
C10_Witness ==
    /\ pc = "failed"
    /\ exc = "IndexError"
    /\ ~html.anchor
    /\ html.tables # <<>>
    /\ files.n = 1
    /\ runs = 2

====
